---- MODULE Spec2Model ----
(***************************************************************************)
(* Pathway router (src/src/pathway.router.js, the current version of the   *)
(* class, lines 478-938): the LRU content cache, the fetch pipeline, the   *)
(* history stack, the navigation controller and the DOM swap.              *)
(*                                                                         *)
(* Five specifications share the module:                                   *)
(*   SpecCache  arbitrary sequences of __set / __get on an empty cache;    *)
(*   Spec       the router driven by clicks, back/forward traversals,      *)
(*              timers and network responses, and the browser, which       *)
(*              follows the links of clicks the router does not cancel and *)
(*              loads their pages;                                         *)
(*   SpecLive   that router under fair scheduling of timers and responses; *)
(*   SpecFair   the same with the router's default options;                *)
(*   SpecScroll the router with scrollRestoration on, link preloading off  *)
(*              and a scrolling user.                                      *)
(***************************************************************************)
EXTENDS Integers, Sequences, FiniteSets, TLC

VARIABLES
    cacheCapacity,      \* options.cacheCapacity
    historyStackSize,   \* options.historyStackSize
    updateRouterHistory,\* options.updateRouterHistory
    mutationObserver,   \* options.mutationObserver
    scrollRestoration,  \* options.scrollRestoration
    preloadLinkSelector,\* options.preloadLinkSelector is a selector (TRUE) or '' (FALSE)
    cache,              \* this.cache: the Map in insertion order, <<[key, value]>>
    history,            \* this.history
    isLoading,          \* this.isLoading
    container,          \* this.container: the node the router holds
    liveNode,           \* the node that is in the document at the container's place
    linkElements,       \* this.linkElements: the nodes whose anchors carry the click
                        \* listener
    docTitle,           \* document.title
    nativeHistory,      \* window.history: the session history entries, each with the
                        \* document it belongs to
    nativeIdx,          \* index of the current session history entry
    ongoing,            \* the navigation the browser has started for a click that was
                        \* not cancelled and has not committed yet, <<>> when none
    scrollY,            \* window.scrollY
    timers,             \* pending setTimeout callbacks of navigate, in firing order
    requests,           \* window.fetch calls that have not settled
    reading,            \* the requests whose then-callback awaits response.text()
    nextId,             \* number of window.fetch calls issued so far, plus one
    navCount,           \* number of navigations so far: navigate calls accepted, links
                        \* the browser follows and documents a traversal loads
    events,             \* the hooks and browser calls of the last handler, in call order
    lastOp,             \* SpecCache: the last cache call and what it returned
    touched             \* SpecCache: reference LRU, the keys in order of last touch

vars == <<cacheCapacity, historyStackSize, updateRouterHistory, mutationObserver,
          scrollRestoration, preloadLinkSelector, cache, history, isLoading, container, liveNode,
          linkElements, docTitle, nativeHistory, nativeIdx, ongoing, scrollY, timers, requests,
          reading, nextId, navCount, events, lastOp, touched>>

optionVars == <<cacheCapacity, historyStackSize, updateRouterHistory,
                mutationObserver, scrollRestoration, preloadLinkSelector>>

routerVars == <<history, isLoading, container, liveNode, linkElements, docTitle, nativeHistory,
                nativeIdx, ongoing, scrollY, timers, requests, reading, nextId, navCount, events>>

----------------------------------------------------------------------------
(* Bounds *)

MaxCapacity == 2        \* largest cacheCapacity tried
MaxStackSize == 1       \* the historyStackSize of the router
MaxNavs == 2            \* navigations in one run, see navCount
MaxScroll == 1          \* largest scroll offset the user scrolls to
MaxContent == 2         \* distinct contents stored under one key in SpecCache

----------------------------------------------------------------------------
(* The site: pages, their titles and the preload links their markup holds *)

URLS == {"a", "b", "c"}

undefined == "undefined"

\* response.title of the document served at a URL
TitleOf(url) == CASE url = "a" -> "Title A" [] url = "b" -> "Title B" [] OTHER -> "Title C"

\* hrefs of the [data-preload-link] anchors of the page, in weight order:
\* page a holds two, pages b and c none
PreloadLinks(url) == CASE url = "a" -> <<"b", "c">> [] OTHER -> <<>>

----------------------------------------------------------------------------
(* Map primitives on the insertion-ordered representation *)

RECURSIVE MapIndex(_, _)
\* position of key in the Map, 0 when absent
MapIndex(map, key) ==
    IF map = <<>> THEN 0
    ELSE IF map[Len(map)].key = key THEN Len(map)
    ELSE MapIndex(SubSeq(map, 1, Len(map) - 1), key)

MapHas(map, key) == MapIndex(map, key) # 0

MapGet(map, key) == IF MapHas(map, key) THEN map[MapIndex(map, key)].value ELSE undefined

MapDelete(map, key) == SelectSeq(map, LAMBDA e : e.key # key)

RECURSIVE MapReplace(_, _, _)
\* the Map with the value of a present key replaced in place
MapReplace(map, key, value) ==
    IF map = <<>> THEN <<>>
    ELSE <<IF Head(map).key = key THEN [key |-> key, value |-> value] ELSE Head(map)>>
         \o MapReplace(Tail(map), key, value)

\* Map.prototype.set: an existing key keeps its position, a new key goes last
MapSet(map, key, value) ==
    IF MapHas(map, key)
    THEN MapReplace(map, key, value)
    ELSE Append(map, [key |-> key, value |-> value])

RECURSIVE MapKeys(_)
\* Map.prototype.keys, in iteration order
MapKeys(map) == IF map = <<>> THEN <<>> ELSE <<Head(map).key>> \o MapKeys(Tail(map))

MapKeySet(map) == {map[i].key : i \in 1..Len(map)}

----------------------------------------------------------------------------
(* Content cache *)

\* mutant of __get_cache: a hit returns the value without re-inserting the key
__get_cache_noPromote(map, key) == map

\* mutant of __get_cache: the has() guard is missing, a miss stores undefined
__get_cache_noGuard(map, key) == MapSet(MapDelete(map, key), key, MapGet(map, key))

\* Pathway.prototype.__get: the Map after the call
__get_cache(map, key) ==
    IF ~MapHas(map, key) THEN map
    ELSE MapSet(MapDelete(map, key), key, MapGet(map, key))

\* Pathway.prototype.__get: the value returned
__get(map, key) == IF ~MapHas(map, key) THEN undefined ELSE MapGet(map, key)

\* this.cache.keys().next().value
FirstKey(map) == IF map = <<>> THEN undefined ELSE map[1].key

\* mutant of __set: the size test is off by one
__set_offByOne(map, capacity, key, value) ==
    LET deleted == MapDelete(map, key) IN
    IF capacity <= 0 THEN deleted
    ELSE IF Len(deleted) = capacity + 1
         THEN MapSet(MapDelete(deleted, FirstKey(deleted)), key, value)
         ELSE MapSet(deleted, key, value)

\* mutant of __set: the newest key is evicted instead of the oldest
__set_evictNewest(map, capacity, key, value) ==
    LET deleted == MapDelete(map, key) IN
    IF capacity <= 0 THEN deleted
    ELSE IF Len(deleted) = capacity
         THEN MapSet(MapDelete(deleted, deleted[Len(deleted)].key), key, value)
         ELSE MapSet(deleted, key, value)

\* mutant of __set: only a negative capacity disables the cache
__set_zeroCapacity(map, capacity, key, value) ==
    LET deleted == MapDelete(map, key) IN
    IF capacity < 0 THEN deleted
    ELSE IF Len(deleted) = capacity
         THEN MapSet(MapDelete(deleted, FirstKey(deleted)), key, value)
         ELSE MapSet(deleted, key, value)

\* Pathway.prototype.__set: the Map after the call
__set(map, capacity, key, value) ==
    LET deleted == MapDelete(map, key) IN
    IF capacity <= 0 THEN deleted
    ELSE IF Len(deleted) = capacity
         THEN MapSet(MapDelete(deleted, FirstKey(deleted)), key, value)
         ELSE MapSet(deleted, key, value)

\* Pathway.prototype.__set: the value returned
__set_ret(map, capacity, key, value) == value

\* Pathway.prototype.getLeastRecent
getLeastRecent(map) == IF map = <<>> THEN undefined ELSE map[1]

\* Pathway.prototype.getMostRecent
getMostRecent(map) == IF map = <<>> THEN undefined ELSE map[Len(map)]

----------------------------------------------------------------------------
(* SpecCache: any sequence of __set / __get calls on an empty cache *)

\* a CacheState as cacheResponse builds it
CacheState(url, content) == [url |-> url, content |-> content, title |-> TitleOf(url)]

NoOp == [key |-> undefined, value |-> undefined, op |-> "none", ret |-> undefined,
         before |-> <<>>]

\* reference LRU: key becomes the most recently touched
Touch(order, key) == Append(SelectSeq(order, LAMBDA k : k # key), key)

CacheInit ==
    /\ cacheCapacity \in -1..MaxCapacity
    /\ cache = <<>>
    /\ lastOp = NoOp
    /\ touched = <<>>
    /\ historyStackSize = 1
    /\ updateRouterHistory = TRUE
    /\ mutationObserver = TRUE
    /\ scrollRestoration = FALSE
    /\ preloadLinkSelector = TRUE
    /\ history = <<>>
    /\ isLoading = FALSE
    /\ container = 0
    /\ liveNode = 0
    /\ linkElements = {}
    /\ docTitle = undefined
    /\ nativeHistory = <<>>
    /\ nativeIdx = 0
    /\ ongoing = <<>>
    /\ scrollY = 0
    /\ timers = <<>>
    /\ requests = {}
    /\ reading = {}
    /\ nextId = 1
    /\ navCount = 0
    /\ events = <<>>

\* router.__set(key, value)
Put(key, value) ==
    /\ cache' = __set(cache, cacheCapacity, key, value)
    /\ lastOp' = [key |-> key, value |-> value, op |-> "put",
                  ret |-> __set_ret(cache, cacheCapacity, key, value), before |-> cache]
    /\ touched' = Touch(touched, key)
    /\ UNCHANGED <<optionVars, routerVars>>

\* router.__get(key)
Get(key) ==
    /\ cache' = __get_cache(cache, key)
    /\ lastOp' = [key |-> key, value |-> undefined, op |-> "get",
                  ret |-> __get(cache, key), before |-> cache]
    /\ touched' = IF key \in MapKeySet(cache) THEN Touch(touched, key) ELSE touched
    /\ UNCHANGED <<optionVars, routerVars>>

CacheNext ==
    \/ \E key \in URLS, content \in 1..MaxContent : Put(key, CacheState(key, content))
    \/ \E key \in URLS : Get(key)

SpecCache == CacheInit /\ [][CacheNext]_vars

----------------------------------------------------------------------------
(* The router: construction *)

Null == "null"

\* the dataset of the clicked anchor, passed as the history state
Dataset == "dataset"

\* status codes the server answers with
Statuses == {200, 204, 299, 301, 404, 500}

\* the page the browser has loaded when the router is constructed: the page
\* that holds two preload links
StartURLS == {"a"}

\* a HistoryState as initEvents and updateDocument build it
HistoryState(url, title, state, scroll) ==
    [url |-> url, title |-> title, state |-> state, scroll |-> scroll]

\* a session history entry of the browser; the entries that pushState and
\* replaceState make belong to the document that made them
NativeEntry(url, state, doc) == [url |-> url, state |-> state, doc |-> doc]

\* window.location.href
Location == nativeHistory[nativeIdx].url

\* the document that is loaded, and with it the router instance
Document == nativeHistory[nativeIdx].doc

\* a window.fetch call that has not settled; waiter is TRUE when fetchLink was
\* given resolve and reject by waitFetch, and then the other fields are the
\* arguments of the navigate call that awaits it
Request(url, id, waiter, historyState, updateHistory, step) ==
    [url |-> url, id |-> id, waiter |-> waiter, historyState |-> historyState,
     updateHistory |-> updateHistory, step |-> step]

\* cacheContainerLinks: one fetchLink(link.href) per preload link, no waiter
Preloads(links, firstId) ==
    {Request(links[i], firstId + i - 1, FALSE, Null, FALSE, 1) : i \in 1..Len(links)}

\* the hrefs cacheContainerLinks fetches when the page at url is in the
\* document; it is only called when options.preloadLinkSelector is set
cacheContainerLinks(url) == IF preloadLinkSelector THEN PreloadLinks(url) ELSE <<>>

\* mutant of fetchEvents: the request starts without the loading hook
fetchEvents_noHook == <<"fetch">>

\* fetchLink past the cache test, lines 684-691: the calls it makes
fetchEvents == <<"onLoadingChange(true)", "fetch">>

\* cacheContainerLinks: the calls of one fetchLink per preload link
RECURSIVE PreloadEvents(_)
PreloadEvents(links) ==
    IF links = <<>> THEN <<>> ELSE fetchEvents \o PreloadEvents(Tail(links))

\* new Pathway(params): cacheResponse of the loaded document, then initEvents
Construct(capacities, stackSizes, scrollRestorations, preloadLinkSelectors) ==
    /\ cacheCapacity \in capacities
    /\ historyStackSize \in stackSizes
    /\ updateRouterHistory \in BOOLEAN
    /\ mutationObserver \in BOOLEAN
    /\ scrollRestoration \in scrollRestorations
    /\ preloadLinkSelector \in preloadLinkSelectors
    /\ \E start \in StartURLS :
        /\ cache = __set(<<>>, cacheCapacity, start, CacheState(start, 0))
        /\ history = <<HistoryState(start, TitleOf(start), Null, 0)>>
        /\ docTitle = TitleOf(start)
        /\ nativeHistory = <<NativeEntry(start, Null, 0)>>
        /\ requests = Preloads(cacheContainerLinks(start), 1)
        /\ nextId = 1 + Len(cacheContainerLinks(start))
        /\ isLoading = (cacheContainerLinks(start) # <<>>)
        /\ events = <<"cacheResponse">> \o PreloadEvents(cacheContainerLinks(start))
    /\ nativeIdx = 1
    /\ ongoing = <<>>
    /\ reading = {}
    /\ container = 0
    /\ liveNode = 0
    /\ linkElements = {0}
    /\ scrollY = 0
    /\ timers = <<>>
    /\ navCount = 0
    /\ lastOp = NoOp
    /\ touched = <<>>

\* the router with scrollRestoration at its default, false, and the cache
\* disabled or at its largest capacity
Init == Construct({0, MaxCapacity}, {MaxStackSize}, {FALSE}, {TRUE})

\* the router with scrollRestoration enabled and link preloading disabled
\* (preloadLinkSelector: ''), one cache and stack size
InitScroll == Construct({MaxCapacity}, {MaxStackSize}, {TRUE}, {FALSE})

----------------------------------------------------------------------------
(* The router: navigation *)

\* a pending callback of navigate's setTimeout, with the arguments it closes over
Timer(url, historyState, updateHistory, step) ==
    [url |-> url, historyState |-> historyState, updateHistory |-> updateHistory,
     step |-> step]

\* Pathway.prototype.navigate
navigate(url, historyState, updateHistory, step) ==
    IF isLoading
    THEN /\ events' = <<>>
         /\ UNCHANGED <<timers, navCount>>
    ELSE /\ events' = <<"onNavigate">>
         /\ timers' = Append(timers, Timer(url, historyState, updateHistory, step))
         /\ navCount' = navCount + 1

\* a navigation of the browser that has not committed; historyHandling is
\* "replace" when the link leads to the URL of the document and "push"
\* otherwise
Navigation(url, historyHandling) == [url |-> url, historyHandling |-> historyHandling]

\* the default action of a click that was not cancelled: the browser starts
\* to follow the link, in place of a navigation it had started before.  No
\* call of the router is made and the document stays, with its router, until
\* the navigation commits.
FollowLink(href) ==
    /\ ongoing' = <<Navigation(href, IF href = Location THEN "replace" ELSE "push")>>
    /\ events' = <<>>
    /\ navCount' = navCount + 1
    /\ UNCHANGED timers

\* the anchors of the node in the document carry the click listener:
\* addClickListeners has run since the node was inserted
HasClickListener == liveNode \in linkElements

\* a click on an anchor with this href.  Without a listener on the anchor no
\* handler runs; Pathway.prototype.clickEventCallback returns while isLoading
\* before event.preventDefault(), lines 559-561; in both cases the browser
\* follows the link.  Otherwise the click is cancelled, and the handler
\* returns without a call when href is the current location.
Click(href) ==
    /\ navCount < MaxNavs
    /\ IF ~HasClickListener \/ isLoading
       THEN FollowLink(href)
       ELSE /\ IF Location = href
               THEN events' = <<>> /\ UNCHANGED <<timers, navCount>>
               ELSE navigate(href, Dataset, updateRouterHistory, 1)
            /\ UNCHANGED ongoing
    /\ UNCHANGED <<cache, history, isLoading, container, liveNode, linkElements, docTitle,
                   nativeHistory, nativeIdx, scrollY, requests, reading, nextId>>
    /\ UNCHANGED <<optionVars, lastOp, touched>>

\* the documents the session history entries belong to
Documents == {nativeHistory[i].doc : i \in 1..Len(nativeHistory)}

\* the document a committing navigation creates: the least label that no
\* session history entry carries
NewDocument ==
    CHOOSE doc \in 0..Len(nativeHistory) :
        doc \notin Documents /\ \A d \in 0..(doc - 1) : d \in Documents

\* the browser has loaded the document at url: the document it leaves is
\* gone, with its router, its timers and its requests, and the script of the
\* new page runs new Pathway(params) with the same options; the new document
\* starts at the top
Load(url) ==
    /\ cache' = __set(<<>>, cacheCapacity, url, CacheState(url, 0))
    /\ history' = <<HistoryState(url, TitleOf(url), Null, 0)>>
    /\ docTitle' = TitleOf(url)
    /\ requests' = Preloads(cacheContainerLinks(url), 1)
    /\ reading' = {}
    /\ nextId' = 1 + Len(cacheContainerLinks(url))
    /\ isLoading' = (cacheContainerLinks(url) # <<>>)
    /\ events' = <<"cacheResponse">> \o PreloadEvents(cacheContainerLinks(url))
    /\ container' = 0
    /\ liveNode' = 0
    /\ linkElements' = {0}
    /\ ongoing' = <<>>
    /\ scrollY' = 0
    /\ timers' = <<>>

\* the navigation the browser started for a click commits: the session
\* history entry of the new document replaces the current entry or is added
\* after it, and the new document is loaded
Commit ==
    /\ ongoing # <<>>
    /\ nativeHistory' =
          IF ongoing[1].historyHandling = "replace"
          THEN [nativeHistory EXCEPT ![nativeIdx] = NativeEntry(ongoing[1].url, Null, NewDocument)]
          ELSE Append(SubSeq(nativeHistory, 1, nativeIdx),
                      NativeEntry(ongoing[1].url, Null, NewDocument))
    /\ nativeIdx' = IF ongoing[1].historyHandling = "replace" THEN nativeIdx ELSE nativeIdx + 1
    /\ Load(ongoing[1].url)
    /\ UNCHANGED <<optionVars, navCount, lastOp, touched>>

\* the browser moves to a session history entry of the loaded document and
\* fires popstate, whose listener calls
\* navigate(window.location.href, null, false, -1); the traversal ends a
\* navigation the browser had started
Popstate(delta) ==
    /\ isLoading \/ navCount < MaxNavs
    /\ nativeIdx' = nativeIdx + delta
    /\ ongoing' = <<>>
    /\ navigate(nativeHistory[nativeIdx + delta].url, Null, FALSE, -1)
    /\ UNCHANGED <<cache, history, isLoading, container, liveNode, linkElements, docTitle,
                   nativeHistory, scrollY, requests, reading, nextId>>

\* the browser moves to a session history entry of another document: it
\* loads the document at the URL of that entry
TraverseLoad(delta) ==
    /\ navCount < MaxNavs
    /\ nativeIdx' = nativeIdx + delta
    /\ nativeHistory' = nativeHistory
    /\ navCount' = navCount + 1
    /\ Load(nativeHistory[nativeIdx + delta].url)

\* the user goes back (delta = -1) or forward (delta = 1)
Traverse(delta) ==
    /\ nativeIdx + delta \in 1..Len(nativeHistory)
    /\ IF nativeHistory[nativeIdx + delta].doc = Document
       THEN Popstate(delta)
       ELSE TraverseLoad(delta)
    /\ UNCHANGED <<optionVars, lastOp, touched>>

\* the user scrolls the window
UserScroll(y) ==
    /\ y # scrollY
    /\ scrollY' = y
    /\ UNCHANGED <<optionVars, cache, history, isLoading, container, liveNode, linkElements,
                   docTitle, nativeHistory, nativeIdx, ongoing, timers, requests, reading,
                   nextId, navCount, events, lastOp, touched>>

\* Array.prototype.splice(0, deleteCount): the array that remains
splice(array, deleteCount) ==
    IF deleteCount <= 0 THEN array
    ELSE IF deleteCount >= Len(array) THEN <<>>
    ELSE SubSeq(array, deleteCount + 1, Len(array))

\* mutant of recordHistory: the entry is recorded whatever updateHistory is
recordHistory_always(array, stackSize, data, historyState, updateHistory, scroll) ==
    Append(splice(array, Len(array) - stackSize),
           HistoryState(data.url, data.title, historyState, scroll))

\* mutant of recordHistory: the stack is trimmed at its end, so the entry
\* recorded last is lost and the oldest one stays
recordHistory_trimsBack(array, stackSize, data, historyState, updateHistory, scroll) ==
    IF updateHistory
    THEN Append(IF Len(array) > stackSize THEN SubSeq(array, 1, stackSize) ELSE array,
                HistoryState(data.url, data.title, historyState, scroll))
    ELSE array

\* updateDocument, lines 757-770: this.history after the call
recordHistory(array, stackSize, data, historyState, updateHistory, scroll) ==
    IF updateHistory
    THEN Append(splice(array, Len(array) - stackSize),
                HistoryState(data.url, data.title, historyState, scroll))
    ELSE array

\* window.history.pushState: entries after the current one are dropped
pushState(entries, idx, state, url) ==
    Append(SubSeq(entries, 1, idx), NativeEntry(url, state, entries[idx].doc))

\* mutant of replaceState: updateDocument calls pushState in both branches
replaceState_pushes(entries, idx, state, url) ==
    Append(SubSeq(entries, 1, idx), NativeEntry(url, state, entries[idx].doc))

\* window.history.replaceState
replaceState(entries, idx, state, url) ==
    [entries EXCEPT ![idx] = NativeEntry(url, state, entries[idx].doc)]

\* mutant of scrollPosition: every navigation scrolls to the top
scrollPosition_top(array, step) == 0

\* updateDocument, lines 782-788: the offset given to window.scrollTo
scrollPosition(array, step) ==
    IF step < 0
    THEN IF Len(array) + step + 1 \in 1..Len(array) THEN array[Len(array) + step + 1].scroll ELSE 0
    ELSE 0

\* updateDocument, lines 774-776: with an observer and a container that is
\* not in the document this.container.parentElement is null and observe
\* throws a TypeError, which ends the call after the title was set
observeThrows == mutationObserver /\ container # liveNode

\* Pathway.prototype.updateDocument with a CacheState, and the microtask of the
\* MutationObserver (mutationHandler) that the swap queues.  settled is the set
\* of requests that end with this call.
updateDocument(data, historyState, updateHistory, step, settled) ==
    LET inDocument == container = liveNode
        observed == mutationObserver /\ inDocument
        links == IF observed THEN cacheContainerLinks(data.url) ELSE <<>>
    IN /\ nativeHistory' = IF updateHistory
                           THEN pushState(nativeHistory, nativeIdx, historyState, data.url)
                           ELSE replaceState(nativeHistory, nativeIdx, historyState, data.url)
       /\ nativeIdx' = IF updateHistory THEN nativeIdx + 1 ELSE nativeIdx
       /\ history' = recordHistory(history, historyStackSize, data, historyState,
                                   updateHistory, scrollY)
       /\ docTitle' = data.title
       /\ liveNode' = IF inDocument THEN data.content ELSE liveNode
       /\ scrollY' = IF scrollRestoration /\ ~observeThrows
                    THEN scrollPosition(history', step)
                    ELSE scrollY
       /\ container' = IF observed THEN data.content ELSE container
       /\ linkElements' = IF observed THEN linkElements \cup {data.content} ELSE linkElements
       /\ requests' = (requests \ settled) \cup Preloads(links, nextId)
       /\ nextId' = nextId + Len(links)

\* mutant of mutationHandlerEvents: the handler runs for every record of the
\* list and never disconnects, so a swap is reported twice
mutationHandlerEvents_everyRecord(links) ==
    <<"container=", "onAfterRender">> \o PreloadEvents(links)
    \o <<"container=", "onAfterRender">> \o PreloadEvents(links)

\* Pathway.prototype.mutationHandler, lines 808-820: the calls it makes for
\* the first childList record with an added node
mutationHandlerEvents(links) ==
    <<"container=", "onAfterRender">> \o PreloadEvents(links) \o <<"disconnect">>

\* updateDocument and the mutationHandler microtask after it: the calls made
updateDocumentEvents(data, updateHistory) ==
    (IF updateHistory THEN <<"pushState", "history.push">> ELSE <<"replaceState">>)
    \o <<"document.title">>
    \o (IF mutationObserver THEN <<"observe">> ELSE <<>>)
    \o (IF observeThrows
        THEN <<>>
        ELSE <<"onBeforeRender", "replaceWith">>
             \o (IF scrollRestoration THEN <<"scrollTo">> ELSE <<>>)
             \o (IF mutationObserver /\ container = liveNode
                 THEN mutationHandlerEvents(cacheContainerLinks(data.url))
                 ELSE <<>>))

\* what cacheContainerLinks, run by mutationHandler, makes of isLoading
LoadingAfterSwap(data) ==
    IF mutationObserver /\ container = liveNode /\ cacheContainerLinks(data.url) # <<>>
    THEN TRUE
    ELSE isLoading

\* mutant of cacheHit: fetchLink tests the cache for the Request object it
\* built, which is never a key, so every call goes to the network
cacheHit_never(map, url) == FALSE

\* fetchLink, line 680, called by waitFetch: this.cache.has(url) && resolve
cacheHit(map, url) == MapHas(map, url)

\* the callback of navigate's setTimeout: onBeforeLeave, waitFetch and, on a
\* cache hit, updateDocument in the same task
TimerFire ==
    /\ timers # <<>>
    /\ LET nav == Head(timers) IN
        /\ timers' = Tail(timers)
        /\ IF cacheHit(cache, nav.url)
           THEN /\ cache' = __get_cache(cache, nav.url)
                /\ updateDocument(__get(cache, nav.url), nav.historyState,
                                  nav.updateHistory, nav.step, {})
                /\ isLoading' = LoadingAfterSwap(__get(cache, nav.url))
                /\ events' = <<"onBeforeLeave", "resolve">>
                              \o updateDocumentEvents(__get(cache, nav.url), nav.updateHistory)
           ELSE /\ isLoading' = TRUE
                /\ events' = <<"onBeforeLeave">> \o fetchEvents
                /\ requests' = requests \cup
                        {Request(nav.url, nextId, TRUE, nav.historyState,
                                 nav.updateHistory, nav.step)}
                /\ nextId' = nextId + 1
                /\ UNCHANGED <<cache, history, container, liveNode, linkElements, docTitle,
                               nativeHistory, nativeIdx, scrollY>>
    /\ UNCHANGED <<optionVars, ongoing, reading, navCount, lastOp, touched>>

----------------------------------------------------------------------------
(* The router: the fetch pipeline *)

\* mutant of roundCodeNumber: Math.round in place of Math.trunc
roundCodeNumber_round(code) == ((code + 50) \div 100) * 100

\* roundCodeNumber of fetchLink
roundCodeNumber(code) == (code \div 100) * 100

\* the calls of fetchLink's then-callback and finally() for an accepted
\* response, with the navigation that resumes in between when there is a waiter
FulfilEvents(req) ==
    <<"cacheResponse">>
    \o (IF req.waiter
        THEN <<"resolve">> \o updateDocumentEvents(CacheState(req.url, req.id), req.updateHistory)
        ELSE <<>>)
    \o <<"onLoadingChange(false)">>

\* mutant of FailEvents: onError is called inside if (reject), so only a
\* request with a waiter reports its failure
FailEvents_onlyWaiter(req) ==
    (IF req.waiter THEN <<"reject", "onError">> ELSE <<>>) \o <<"onLoadingChange(false)">>

\* the calls of fetchLink's catch-callback and finally()
FailEvents(req) ==
    (IF req.waiter THEN <<"reject">> ELSE <<>>) \o <<"onError", "onLoadingChange(false)">>

\* mutant of Fulfil: the entry is applied for every accepted response, also
\* for one that a preload asked for
Fulfil_appliesPreload(req) ==
    LET cached == CacheState(req.url, req.id) IN
    /\ cache' = __set(cache, cacheCapacity, req.url, cached)
    /\ updateDocument(cached, req.historyState, req.updateHistory, req.step, {req})
    /\ isLoading' = FALSE
    /\ events' = FulfilEvents(req)

\* the then-callback of fetchLink after response.text() has resolved: the
\* document is cached, a waiter is resolved and its navigation applies the
\* entry, then finally() clears isLoading
Fulfil(req) ==
    LET cached == CacheState(req.url, req.id) IN
    /\ cache' = __set(cache, cacheCapacity, req.url, cached)
    /\ IF req.waiter
       THEN updateDocument(cached, req.historyState, req.updateHistory, req.step, {req})
       ELSE /\ requests' = requests \ {req}
            /\ UNCHANGED <<history, container, liveNode, linkElements, docTitle, nativeHistory,
                           nativeIdx, scrollY, nextId>>
    /\ isLoading' = FALSE
    /\ events' = FulfilEvents(req)

\* mutant of Fail: fetchLink has no finally(), so a failed request leaves
\* isLoading set
Fail_keepsLoading(req) ==
    /\ requests' = requests \ {req}
    /\ isLoading' = isLoading
    /\ events' = <<"onError">>
    /\ UNCHANGED <<cache, history, container, liveNode, linkElements, docTitle, nativeHistory,
                   nativeIdx, scrollY, nextId>>

\* mutant of Fail: updateDocument pushes the requested URL before it reads
\* the missing data, so a failed navigation leaves a native history entry
Fail_pushesFirst(req) ==
    /\ requests' = requests \ {req}
    /\ isLoading' = FALSE
    /\ nativeHistory' = IF req.waiter /\ req.updateHistory
                         THEN pushState(nativeHistory, nativeIdx, req.historyState, req.url)
                         ELSE nativeHistory
    /\ nativeIdx' = IF req.waiter /\ req.updateHistory THEN nativeIdx + 1 ELSE nativeIdx
    /\ events' = FailEvents(req)
    /\ UNCHANGED <<cache, history, container, liveNode, linkElements, docTitle, scrollY, nextId>>

\* the catch-callback of fetchLink: a waiter is rejected, waitFetch returns
\* undefined and updateDocument(undefined, ...) throws on data.url before it
\* has changed anything; onError is called, then finally() clears isLoading
Fail(req) ==
    /\ requests' = requests \ {req}
    /\ isLoading' = FALSE
    /\ events' = FailEvents(req)
    /\ UNCHANGED <<cache, history, container, liveNode, linkElements, docTitle, nativeHistory,
                   nativeIdx, scrollY, nextId>>

\* the then-callback of fetchLink at await response.text(), line 697: the
\* callback returns to the event loop and nothing of the router has changed
AwaitText(req) ==
    /\ reading' = reading \cup {req}
    /\ events' = <<>>
    /\ UNCHANGED <<cache, history, isLoading, container, liveNode, linkElements, docTitle,
                   nativeHistory, nativeIdx, scrollY, requests, nextId>>

\* window.fetch resolves with a response of this status: a status that is
\* not accepted throws, and catch and finally run in the same task; with an
\* accepted status the callback awaits the body
Respond(req, status) ==
    /\ req \in requests \ reading
    /\ IF roundCodeNumber(status) # 200
       THEN Fail(req) /\ reading' = reading
       ELSE AwaitText(req)
    /\ UNCHANGED <<optionVars, ongoing, timers, navCount, lastOp, touched>>

\* response.text() resolves: the then-callback resumes in a later task
ResponseText(req) ==
    /\ req \in reading
    /\ Fulfil(req)
    /\ reading' = reading \ {req}
    /\ UNCHANGED <<optionVars, ongoing, timers, navCount, lastOp, touched>>

\* window.fetch, or response.text(), rejects
Reject(req) ==
    /\ req \in requests
    /\ Fail(req)
    /\ reading' = reading \ {req}
    /\ UNCHANGED <<optionVars, ongoing, timers, navCount, lastOp, touched>>

Next ==
    \/ \E href \in URLS : Click(href)
    \/ \E delta \in {-1, 1} : Traverse(delta)
    \/ Commit
    \/ TimerFire
    \/ \E req \in requests, status \in Statuses : Respond(req, status)
    \/ \E req \in requests : ResponseText(req)
    \/ \E req \in requests : Reject(req)

Spec == Init /\ [][Next]_vars

\* some outstanding request moves on: window.fetch settles, or the body that
\* its then-callback awaits is read
Settle ==
    \E req \in requests :
        \/ Reject(req)
        \/ \E status \in Statuses : Respond(req, status)
        \/ ResponseText(req)

\* the router, with any options, when the event loop runs every due timer
\* callback and every network request eventually settles
SpecLive == Init /\ [][Next]_vars /\ WF_vars(TimerFire) /\ WF_vars(Settle)

\* the router with the default values of its boolean options and its cache
\* enabled
InitFair == Init /\ updateRouterHistory /\ mutationObserver /\ cacheCapacity = MaxCapacity

\* that router under the same scheduling
SpecFair == InitFair /\ [][Next]_vars /\ WF_vars(TimerFire) /\ WF_vars(Settle)

\* the router with scroll restoration, and a user who scrolls
NextScroll ==
    \/ Next
    \/ \E y \in 0..MaxScroll : UserScroll(y)

SpecScroll == InitScroll /\ [][NextScroll]_vars

----------------------------------------------------------------------------
(* Claims about the content cache, checked under SpecCache *)

\* the keys of order that are in the Map, in the order they have in order
Restrict(order, map) == SelectSeq(order, LAMBDA k : k \in MapKeySet(map))

\* C1: with a capacity C > 0 the cache never holds more than C entries,
\* whatever sequence of __set and __get calls led to the state.
C1_SizeAtMostCapacity ==
    cacheCapacity > 0 => Len(cache) <= cacheCapacity

\* a put of a new key into a full cache has just happened and the cache is still full
C1_Witness ==
    /\ cacheCapacity > 0
    /\ lastOp.op = "put"
    /\ Len(lastOp.before) = cacheCapacity
    /\ ~MapHas(lastOp.before, lastOp.key)
    /\ Len(cache) = cacheCapacity

\* C2: the iteration order of the cache is the touch order of the reference
\* LRU restricted to the current members; getLeastRecent() is the member
\* touched longest ago and getMostRecent() the member touched last.
C2_OrderIsTouchOrder ==
    /\ MapKeys(cache) = Restrict(touched, cache)
    /\ cache # <<>> =>
        /\ getLeastRecent(cache).key = Head(Restrict(touched, cache))
        /\ getMostRecent(cache).key = Restrict(touched, cache)[Len(Restrict(touched, cache))]

\* a get hit has just promoted the member that was the least recent one
C2_Witness ==
    /\ lastOp.op = "get"
    /\ Len(lastOp.before) >= 2
    /\ lastOp.key = lastOp.before[1].key
    /\ getMostRecent(cache).key = lastOp.key
    /\ getLeastRecent(cache).key = lastOp.before[2].key

\* the two worked examples of the eviction rule, capacity 2
C3_Examples ==
    LET A == CacheState("a", 1)
        B == CacheState("b", 1)
        C == CacheState("c", 1)
        ab == __set(__set(<<>>, 2, "a", A), 2, "b", B)
    IN /\ MapKeys(__set(ab, 2, "c", C)) = <<"b", "c">>
       /\ MapKeys(__set(__get_cache(ab, "a"), 2, "c", C)) = <<"a", "c">>

\* C3: a put of an absent key into a full cache removes exactly the least
\* recent entry and keeps every other entry; a put of a present key evicts
\* nothing, keeps the size and places the key last (most recent).
C3_PutEvictsOnlyLeastRecent ==
    /\ C3_Examples
    /\ (lastOp.op = "put" /\ cacheCapacity > 0) =>
        LET b == lastOp.before
            k == lastOp.key
        IN /\ getMostRecent(cache) = [key |-> k, value |-> lastOp.value]
           /\ (~MapHas(b, k) /\ Len(b) = cacheCapacity) =>
                /\ MapKeySet(cache) = (MapKeySet(b) \ {getLeastRecent(b).key}) \cup {k}
                /\ Len(cache) = Len(b)
                /\ \A j \in MapKeySet(b) \ {getLeastRecent(b).key} :
                       MapGet(cache, j) = MapGet(b, j)
                /\ MapKeys(MapDelete(cache, k)) = Tail(MapKeys(b))
           /\ MapHas(b, k) =>
                /\ MapKeySet(cache) = MapKeySet(b)
                /\ Len(cache) = Len(b)
                /\ \A j \in MapKeySet(b) \ {k} : MapGet(cache, j) = MapGet(b, j)
                /\ MapKeys(MapDelete(cache, k)) = MapKeys(MapDelete(b, k))

\* a put of a third key into a full cache of capacity 2 has evicted the oldest key
C3_Witness ==
    /\ cacheCapacity = 2
    /\ lastOp.op = "put"
    /\ Len(lastOp.before) = 2
    /\ ~MapHas(lastOp.before, lastOp.key)
    /\ MapKeys(cache) = <<lastOp.before[2].key, lastOp.key>>

\* C4: a get hit returns the stored entry, moves it to the most recent
\* position and changes neither the members nor a stored value; a get miss
\* returns undefined and leaves the cache unchanged.
C4_GetFrame ==
    lastOp.op = "get" =>
        LET b == lastOp.before
            k == lastOp.key
        IN IF MapHas(b, k)
           THEN /\ lastOp.ret = MapGet(b, k)
                /\ getMostRecent(cache) = [key |-> k, value |-> MapGet(b, k)]
                /\ MapKeySet(cache) = MapKeySet(b)
                /\ Len(cache) = Len(b)
                /\ \A j \in MapKeySet(b) : MapGet(cache, j) = MapGet(b, j)
                /\ MapKeys(MapDelete(cache, k)) = MapKeys(MapDelete(b, k))
           ELSE /\ lastOp.ret = undefined
                /\ cache = b

\* a get has just hit the older of two entries and returned what was stored
C4_Witness ==
    /\ lastOp.op = "get"
    /\ Len(lastOp.before) = 2
    /\ lastOp.before[1].key = lastOp.key
    /\ lastOp.ret = lastOp.before[1].value
    /\ lastOp.ret.content = MaxContent
    /\ cache # lastOp.before

\* C5: with cacheCapacity <= 0 a put returns the entry it was given, nothing
\* is ever retained, and every get is a miss.
C5_ZeroCapacityRetainsNothing ==
    cacheCapacity <= 0 =>
        /\ cache = <<>>
        /\ lastOp.op = "put" => lastOp.ret = lastOp.value
        /\ lastOp.op = "get" => lastOp.ret = undefined

\* with capacity 0, a get of a key that was put before has just missed
C5_Witness ==
    /\ cacheCapacity = 0
    /\ lastOp.op = "get"
    /\ \E i \in 1..Len(touched) : touched[i] = lastOp.key
    /\ lastOp.ret = undefined

----------------------------------------------------------------------------
(* Claims about the router, checked under Spec *)

\* the requests a navigation waits for
Waited == {req \in requests : req.waiter}

\* a step of one router instance: the step loads no document
SameDocument == Document' = Document

\* C6: single-flight fetch, at most one network request is outstanding per URL.
C6_SingleFlight ==
    \A r1, r2 \in requests : r1.url = r2.url => r1 = r2

\* C7: navigation guard, at most one accepted navigation (waiting for its
\* timer or for its fetch) is in progress at any time.
C7_NavigationGuard ==
    Len(timers) + Cardinality(Waited) <= 1

\* C8: history bound, the history stack never holds more than
\* historyStackSize entries.
C8_HistoryBound ==
    Len(history) <= historyStackSize

\* a step in which a navigation to url with this updateHistory and step
\* completes: updateDocument runs, from the timer callback on a cache hit or
\* from the task that has read the response its fetch was waiting for
NavCompletes(url, updateHistory, step) ==
    \/ /\ timers # <<>>
       /\ Head(timers).url = url
       /\ Head(timers).updateHistory = updateHistory
       /\ Head(timers).step = step
       /\ MapHas(cache, url)
       /\ TimerFire
    \/ \E req \in requests :
        /\ req.waiter
        /\ req.url = url
        /\ req.updateHistory = updateHistory
        /\ req.step = step
        /\ ResponseText(req)

\* history' is history, possibly trimmed at the front, plus one entry for url
AppendsEntryFor(url) ==
    /\ history' # <<>>
    /\ history'[Len(history')].url = url
    /\ \E k \in 0..Len(history) :
          SubSeq(history', 1, Len(history') - 1) = SubSeq(history, k + 1, Len(history))

NavFails ==
    \E req \in Waited :
        \/ Reject(req)
        \/ \E status \in Statuses : roundCodeNumber(status) # 200 /\ Respond(req, status)

\* a step of a navigation before its content is there: the click, whether
\* the router cancels it and calls navigate or not, the timer callback that
\* misses the cache and the response with an accepted status, whose body is
\* still to be read
NavWaits ==
    \/ \E href \in URLS : Click(href)
    \/ timers # <<>> /\ ~MapHas(cache, Head(timers).url) /\ TimerFire
    \/ \E req \in Waited \ reading, status \in Statuses :
          roundCodeNumber(status) = 200 /\ Respond(req, status)

\* C10: a failed navigation never partially applies, neither the step in
\* which its fetch fails nor a step before it changes the node in the
\* document, the title, the history stack or the native history.
C10_FailureAppliesNothing ==
    [][(NavFails \/ NavWaits) =>
          UNCHANGED <<liveNode, container, docTitle, history, nativeHistory, nativeIdx>>]_vars

\* the one navigation that was accepted, a pushing one, has ended and nothing
\* of it is visible: its fetch failed
C10_Witness ==
    /\ navCount = 1
    /\ updateRouterHistory
    /\ timers = <<>>
    /\ Waited = {}
    /\ nextId > 1 + Len(PreloadLinks(history[1].url))
    /\ Len(history) = 1
    /\ Len(nativeHistory) = 1
    /\ liveNode = 0
    /\ docTitle = TitleOf(history[1].url)

----------------------------------------------------------------------------
(* Claims about hooks and calls, checked under Spec *)

\* how often call occurs in a sequence of calls
Count(call, calls) == Cardinality({i \in 1..Len(calls) : calls[i] = call})

\* the positions of call in a sequence of calls
Positions(call, calls) == {i \in 1..Len(calls) : calls[i] = call}

\* a step in which this request fails: the transport or the read of the body
\* rejects, or the status is not accepted
RequestFails(req) ==
    /\ req \notin requests'
    /\ \/ Reject(req)
       \/ \E status \in Statuses : roundCodeNumber(status) # 200 /\ Respond(req, status)

\* a step in which this request succeeds: the body of its accepted response
\* has been read
RequestSucceeds(req) ==
    /\ req \notin requests'
    /\ ResponseText(req)

\* the nodes a completed navigation to url can have inserted: the content of
\* the cached entry, or the document parsed from the response it waited for
NodesFor(map, reqs, url) ==
    {MapGet(map, key).content : key \in MapKeySet(map) \cap {url}}
    \cup {req.id : req \in {r \in reqs : r.waiter /\ r.url = url}}

\* C12: onError is called exactly once in the step in which a network request
\* fails and in no other step, in particular not when a request succeeds; the
\* waiter of a failed request is rejected, never resolved, and no entry is
\* applied for it.
C12_ErrorHookOncePerFailure ==
    [][/\ \A req \in requests :
            /\ RequestFails(req) =>
                 /\ Count("onError", events') = 1
                 /\ Count("resolve", events') = 0
                 /\ Count("reject", events') = (IF req.waiter THEN 1 ELSE 0)
                 /\ UNCHANGED <<cache, liveNode, container, docTitle>>
            /\ RequestSucceeds(req) =>
                 /\ Count("onError", events') = 0
                 /\ Count("reject", events') = 0
                 /\ Count("resolve", events') = (IF req.waiter THEN 1 ELSE 0)
       /\ Count("onError", events') > 0 => \E req \in requests : RequestFails(req)
      ]_vars

\* the fetch of a navigation has just failed while a preload is outstanding:
\* its waiter was rejected and onError was called
C12_Witness ==
    /\ events = <<"reject", "onError", "onLoadingChange(false)">>
    /\ navCount >= 1
    /\ Waited = {}
    /\ requests # {}

\* C13: in every step of a router onLoadingChange(true) is called once for
\* each network request the step starts, directly before its window.fetch,
\* and onLoadingChange(false) once for each request the step settles, which
\* was started, and notified with true, in an earlier step; a step that
\* starts and settles no request calls the hook not at all.  The router of a
\* document that is loaded starts with one true notification per preload.
C13_LoadingHookPerRequest ==
    [][/\ SameDocument =>
            /\ Count("onLoadingChange(true)", events') = Cardinality(requests' \ requests)
            /\ Count("onLoadingChange(false)", events') = Cardinality(requests \ requests')
            /\ Count("fetch", events') = Cardinality(requests' \ requests)
       /\ ~SameDocument =>
            /\ Count("onLoadingChange(true)", events') = Cardinality(requests')
            /\ Count("onLoadingChange(false)", events') = 0
            /\ Count("fetch", events') = Cardinality(requests')
       /\ \A i \in Positions("onLoadingChange(true)", events') :
              i < Len(events') /\ events'[i + 1] = "fetch"
       /\ \A i \in Positions("fetch", events') :
              i > 1 /\ events'[i - 1] = "onLoadingChange(true)"
      ]_vars

\* the fetch of a navigation has just been fulfilled and the swap has started
\* the preloads of the new page: one false and at least one true notification
C13_Witness ==
    /\ navCount >= 1
    /\ Count("resolve", events) = 1
    /\ Count("onLoadingChange(false)", events) = 1
    /\ Count("onLoadingChange(true)", events) >= 1
    /\ Cardinality(requests) = Count("onLoadingChange(true)", events)

\* C14: when the timer callback of a navigation asks for a URL that is in the
\* cache, the step completes the navigation with the cached entry itself
\* (its title is set, and its node is swapped in when the container the
\* router holds is in the document), makes it the most recent entry without
\* changing the members or a stored value, and issues no network request for
\* the URL: resolve is called before any window.fetch and the only requests
\* started are the preloads that the link re-scan of mutationHandler starts.
C14_CacheHitWithoutNetwork ==
    [][\A url \in URLS :
          (timers # <<>> /\ Head(timers).url = url /\ MapHas(cache, url) /\ TimerFire) =>
              /\ Waited' = Waited
              /\ \A req \in requests' \ requests : req.url # url
              /\ Cardinality(requests' \ requests) =
                     (IF mutationObserver /\ container = liveNode
                      THEN Len(cacheContainerLinks(url)) ELSE 0)
              /\ \A req \in requests' \ requests : ~req.waiter
              /\ getMostRecent(cache').key = url
              /\ MapKeySet(cache') = MapKeySet(cache)
              /\ \A key \in MapKeySet(cache) : MapGet(cache', key) = MapGet(cache, key)
              /\ docTitle' = MapGet(cache, url).title
              /\ container = liveNode => liveNode' = MapGet(cache, url).content
              /\ Count("resolve", events') = 1
              /\ \A i \in Positions("fetch", events'), j \in Positions("resolve", events') :
                     j < i
      ]_vars

\* a navigation back to the start page has just been served from the cache,
\* where the start page was not the most recent entry: the page is shown
\* again, it is now the most recent entry and no navigation request exists
C14_Witness ==
    /\ navCount = 2
    /\ cacheCapacity > 0
    /\ Len(events) >= 2
    /\ events[2] = "resolve"
    /\ liveNode = 0
    /\ Len(cache) >= 2
    /\ getMostRecent(cache).value.content = 0
    /\ docTitle = getMostRecent(cache).value.title
    /\ Waited = {}

\* the status codes a response can carry
StatusRange == 100..599

\* the rule of fetchLink agrees with the 2xx class on every status code, and
\* on the six codes the specification names
StatusRule ==
    /\ \A s \in StatusRange : (roundCodeNumber(s) = 200) <=> (200 <= s /\ s <= 299)
    /\ \A s \in {200, 204, 299} : s \in Statuses /\ roundCodeNumber(s) = 200
    /\ \A s \in {301, 404, 500} : s \in Statuses /\ roundCodeNumber(s) # 200

\* C15: in every step that starts, answers or settles a request a status s
\* is accepted iff trunc(s/100)*100 = 200, which is iff 200 <= s <= 299; a
\* response with an accepted status makes the callback read the body, and
\* stores and reports nothing yet; a response with any
\* other status leaves the cache unchanged and is reported to onError; a
\* document is parsed and stored (as the most recent entry, when the cache
\* retains anything) only in the step that has read the body of a response
\* whose status was accepted (and, for the document of the page itself, when
\* the page is loaded).
C15_StatusClassification ==
    [][/\ (reading' # reading \/ requests' # requests) => StatusRule
       /\ \A req \in reading' \ reading :
            /\ \E status \in {s \in Statuses : 200 <= s /\ s <= 299} : Respond(req, status)
            /\ events' = <<>>
            /\ cache' = cache
       /\ reading' # reading =>
            \A req \in requests \ reading :
                 (\E status \in {s \in Statuses : 200 <= s /\ s <= 299} : Respond(req, status)) =>
                     req \in reading'
       /\ \A req \in (requests \ reading) \ requests' :
            (\E status \in {s \in Statuses : ~(200 <= s /\ s <= 299)} : Respond(req, status)) =>
                 /\ Count("cacheResponse", events') = 0
                 /\ Count("onError", events') = 1
                 /\ cache' = cache
       /\ \A req \in reading \ requests' :
            ResponseText(req) =>
                 /\ Count("cacheResponse", events') = 1
                 /\ Count("onError", events') = 0
                 /\ cacheCapacity > 0 =>
                        /\ MapHas(cache', req.url)
                        /\ MapGet(cache', req.url) = CacheState(req.url, req.id)
       /\ (SameDocument /\ Count("cacheResponse", events') > 0) =>
            \E req \in reading \ requests' : ResponseText(req)
      ]_vars

\* one preload has been answered with an accepted status and its body has
\* just been read: its document was parsed and is the most recent entry of
\* the cache, while the other preload, accepted too, still awaits its body
C15_Witness ==
    /\ events = <<"cacheResponse", "onLoadingChange(false)">>
    /\ reading # {}
    /\ cacheCapacity > 0
    /\ getMostRecent(cache).value.content > 0
    /\ navCount = 0

\* C16: a completed navigation with updateHistory = true leaves the session
\* history up to the current entry as it was and adds exactly one entry after
\* it, at the destination URL, which becomes the current entry; a completed
\* navigation with updateHistory = false changes the URL and state of the
\* current entry only, so the length and the current index stay the same.
C16_NativeHistoryPushOrReplace ==
    [][\A url \in URLS, step \in {-1, 1} :
          /\ NavCompletes(url, TRUE, step) =>
                /\ Len(nativeHistory') = nativeIdx + 1
                /\ nativeIdx' = nativeIdx + 1
                /\ SubSeq(nativeHistory', 1, nativeIdx) = SubSeq(nativeHistory, 1, nativeIdx)
                /\ nativeHistory'[nativeIdx'].url = url
          /\ NavCompletes(url, FALSE, step) =>
                /\ Len(nativeHistory') = Len(nativeHistory)
                /\ nativeIdx' = nativeIdx
                /\ nativeHistory'[nativeIdx].url = url
                /\ \A i \in 1..Len(nativeHistory) :
                       i # nativeIdx => nativeHistory'[i] = nativeHistory[i]
      ]_vars

\* a click has pushed a second session history entry and a back navigation
\* has just completed by replaceState: still two entries, the first current
C16_Witness ==
    /\ Count("replaceState", events) = 1
    /\ Len(nativeHistory) = 2
    /\ nativeIdx = 1
    /\ nativeHistory[2].state = Dataset
    /\ nativeHistory[1].state = Null

\* C17: in every step that completes a navigation the container reference
\* is assigned exactly once, before onAfterRender and before the preloads of
\* the link re-scan, and after the step it is the node that is live in the
\* document, the fragment just inserted.
C17_ContainerFollowsSwap ==
    [][\A url \in URLS, updateHistory \in BOOLEAN, step \in {-1, 1} :
          NavCompletes(url, updateHistory, step) =>
              /\ container' = liveNode'
              /\ liveNode' \in NodesFor(cache', requests, url)
              /\ Count("container=", events') = 1
              /\ \A i \in Positions("container=", events') :
                     /\ \A j \in Positions("replaceWith", events') : j < i
                     /\ \A j \in Positions("onAfterRender", events') : i < j
                     /\ \A j \in Positions("fetch", events') : i < j
      ]_vars

\* C18: in every step there is at most one swap and at most one
\* onAfterRender call, none without a swap and none before it; the watch is
\* armed before the swap, and every watch that is armed is disconnected in
\* the same step, after onAfterRender.
C18_OneShotWatch ==
    [][/\ Count("replaceWith", events') <= 1
       /\ Count("onAfterRender", events') <= Count("replaceWith", events')
       /\ Count("disconnect", events') = Count("observe", events')
       /\ Count("onAfterRender", events') = Count("observe", events')
       /\ \A i \in Positions("replaceWith", events') :
              /\ \A j \in Positions("observe", events') : j < i
              /\ \A j \in Positions("onAfterRender", events') : i < j
       /\ \A i \in Positions("disconnect", events') :
              \A j \in Positions("onAfterRender", events') : j < i
       /\ Count("onAfterRender", events') = 1 => container' = liveNode'
      ]_vars

\* with the observer enabled a second navigation has just swapped its
\* content in and onAfterRender was called once, after the swap
C18_Witness ==
    /\ mutationObserver
    /\ Document = 0
    /\ navCount = 2
    /\ Count("replaceWith", events) = 1
    /\ Count("onAfterRender", events) = 1
    /\ Count("disconnect", events) = 1
    /\ container = liveNode
    /\ liveNode # 0

\* the calls of a sequence that belong to the lifecycle of a navigation
Lifecycle(calls) ==
    SelectSeq(calls, LAMBDA c : c \in {"onNavigate", "onBeforeLeave", "resolve", "pushState",
                                       "replaceState", "history.push", "onBeforeRender",
                                       "replaceWith", "onAfterRender"})

\* C20: the lifecycle of a navigation that completes: the step that accepts
\* it calls onNavigate, the timer callback calls onBeforeLeave first, and the
\* step that completes it obtains the content, pushes or replaces the native
\* entry (and records the history entry when it pushes, as C9 has it), calls
\* onBeforeRender, swaps the container and calls onAfterRender, each once and
\* in this order, and the destination's node is in the document afterwards.
C20_LifecycleOrder ==
    [][/\ Len(timers') > Len(timers) => events' = <<"onNavigate">>
       /\ (SameDocument /\ Len(timers') < Len(timers)) =>
              Count("onBeforeLeave", events') = 1 /\ events'[1] = "onBeforeLeave"
       /\ \A url \in URLS, updateHistory \in BOOLEAN, step \in {-1, 1} :
            NavCompletes(url, updateHistory, step) =>
                /\ Lifecycle(events') =
                       (IF Len(timers') < Len(timers) THEN <<"onBeforeLeave">> ELSE <<>>)
                       \o <<"resolve">>
                       \o (IF updateHistory THEN <<"pushState", "history.push">>
                                            ELSE <<"replaceState">>)
                       \o <<"onBeforeRender", "replaceWith", "onAfterRender">>
                /\ liveNode' \in NodesFor(cache', requests, url)
      ]_vars

----------------------------------------------------------------------------
(* Claims about scroll restoration, checked under SpecScroll *)

\* C19: with scrollRestoration enabled a completed navigation calls scrollTo
\* once; with a backward step it scrolls to the offset recorded in the
\* history entry at index length + step (counting from 0), or to 0 when the
\* stack has no such entry, and with a forward step it scrolls to 0.
C19_ScrollRestoration ==
    [][\A url \in URLS, updateHistory \in BOOLEAN, step \in {-1, 1} :
          (scrollRestoration /\ NavCompletes(url, updateHistory, step)) =>
              /\ Count("scrollTo", events') = 1
              /\ scrollY' = IF step >= 0 THEN 0
                            ELSE IF Len(history') + step >= 0 /\ Len(history') + step < Len(history')
                                 THEN history'[Len(history') + step + 1].scroll
                                 ELSE 0
      ]_vars

\* the user scrolled down before clicking a link, and the back navigation
\* that has just completed scrolled the window to that offset again
C19_Witness ==
    /\ scrollRestoration
    /\ Count("scrollTo", events) = 1
    /\ Count("replaceState", events) = 1
    /\ nativeIdx = 1
    /\ Len(nativeHistory) = 2
    /\ scrollY = MaxScroll
    /\ history[Len(history)].scroll = MaxScroll

----------------------------------------------------------------------------
(* Claims about the navigation controller's liveness, checked under SpecLive *)

\* a navigation has been accepted and has not ended: its timer is pending or
\* its fetch is outstanding
InProgress == timers # <<>> \/ Waited # {}

\* C11: every accepted navigation eventually ends, with its fetch fulfilled
\* or failed, and isLoading never stays true for ever: whenever a navigation
\* is in progress or isLoading is set, a state follows in which no navigation
\* is in progress and isLoading = false, so that navigate accepts a call again;
\* that is, at every moment such a state is still to come or is there.
C11_ReturnsToIdle ==
    []<>(~InProgress /\ ~isLoading)

\* the fetch of the one accepted navigation has just failed, nothing is
\* outstanding and the router accepts navigations again
C11_Witness ==
    /\ navCount = 1
    /\ "reject" \in {events[i] : i \in 1..Len(events)}
    /\ ~InProgress
    /\ requests = {}
    /\ ~isLoading

----------------------------------------------------------------------------
(* Claims about the history stack and link preloading, checked under Spec *)

\* C21: the history stack of a router starts as the single initial-load
\* entry, with null state and scroll 0, and every step of the router leaves
\* it as it is or drops entries from its front and appends one new entry at
\* its end: the entries that stay keep their values and their order, so the
\* stack is always a contiguous suffix of the sequence of all entries ever
\* recorded.
C21_HistoryIsSuffixOfRecorded ==
    /\ history = <<HistoryState(Location, docTitle, Null, 0)>>
    /\ [][/\ ~SameDocument => history' = <<HistoryState(Location', docTitle', Null, 0)>>
          /\ SameDocument =>
                \/ history' = history
                \/ /\ history' # <<>>
                   /\ \E k \in 0..Len(history) :
                          history' = Append(SubSeq(history, k + 1, Len(history)),
                                            history'[Len(history')])
         ]_vars

\* two pushing navigations have completed and the second one dropped the
\* initial-load entry from the front: the stack holds their two entries, in
\* the order they were recorded
C21_Witness ==
    /\ navCount = 2
    /\ Len(history) = 2
    /\ history[1].state = Dataset
    /\ history[2].state = Dataset
    /\ history[1].url = nativeHistory[2].url
    /\ history[2].url = nativeHistory[3].url

\* C22: whenever a network request of the fetch pipeline, for a navigation or
\* for a preload, is outstanding, isLoading is true, so the router accepts no
\* navigation before the last outstanding request has settled.
C22_LoadingWhileOutstanding ==
    requests # {} => isLoading

\* C24: link preloading never issues a network request for a URL that is in
\* the cache: no request without a waiter that a step starts is for a key the
\* cache holds when cacheContainerLinks runs, at the end of the step.
C24_PreloadSkipsCached ==
    [][\A req \in requests' \ requests : ~req.waiter => ~MapHas(cache', req.url)]_vars

\* C25: the step of a router in which a request without a waiter, one that
\* link preloading started, settles changes only the cache and the loading flag:
\* it stores the parsed document when the response is accepted and leaves the
\* cache as it is otherwise, clears isLoading, and changes neither the
\* container, the node in the document, the title, the scroll offset, the
\* history stack, the native history nor the pending navigations, and it
\* starts no request.
C25_PreloadTouchesOnlyCache ==
    [][\A req \in requests \ requests' :
          (SameDocument /\ ~req.waiter) =>
              /\ UNCHANGED <<container, liveNode, docTitle, scrollY, history,
                             nativeHistory, nativeIdx, timers, navCount>>
              /\ requests' = requests \ {req}
              /\ ~isLoading'
              /\ \/ cache' = cache
                 \/ cache' = __set(cache, cacheCapacity, req.url, CacheState(req.url, req.id))
              /\ Count("resolve", events') = 0
              /\ Count("reject", events') = 0
              /\ Count("replaceWith", events') = 0
      ]_vars

\* both preloads of the start page have settled, one accepted and one
\* failed, before any navigation: the cache holds one more entry and the
\* document, the history stack and the native history are those of the load
C25_Witness ==
    /\ navCount = 0
    /\ requests = {}
    /\ nextId = 3
    /\ Len(cache) = 2
    /\ getMostRecent(cache).value.content > 0
    /\ ~isLoading
    /\ liveNode = 0
    /\ container = 0
    /\ docTitle = TitleOf(Location)
    /\ Len(history) = 1
    /\ nativeHistory = <<NativeEntry(history[1].url, Null, 0)>>

----------------------------------------------------------------------------
(* Claims about back/forward navigation, checked under SpecFair *)

\* no request is outstanding, no timer is pending and navigate accepts a call
Idle == ~isLoading /\ timers = <<>> /\ requests = {}

\* the document shows the page of the browser's current URL; with the
\* observer on the title and the container are always replaced together
ShowsLocation == docTitle = TitleOf(Location)

\* C23: the displayed content follows the browser location: whenever the
\* router is idle the document shows the page of the current URL, and every
\* back/forward event, which moves the location away from the page shown, is
\* eventually followed by the swap of the new location's content or by the
\* error hook of the navigation it started.
C23_ContentFollowsLocation ==
    /\ [](Idle => ShowsLocation)
    /\ ~ShowsLocation ~>
          (ShowsLocation \/ (Count("reject", events) = 1 /\ Count("onError", events) = 1))

====
